---- MODULE Spec2Model ----
(***************************************************************************)
(* The pin / location state machine of the UniTracker Home screen.         *)
(*                                                                         *)
(* The repository holds three versions of the Home component:              *)
(*   "minimal"  src/client/src/pages/Home.tsx lines 1-353                  *)
(*   "soft"     src/client/src/pages/Home.tsx lines 355-770                *)
(*   "cyber"    src/unnamed/part_001                                       *)
(* One run of the model is one mounted component of one version.  A step   *)
(* is one event-loop task: a DOM event handler or a geolocation callback,  *)
(* together with the re-render and the effects React runs for it.          *)
(*                                                                         *)
(* Controls are operable when the component renders them (the conditional  *)
(* JSX around them); in the cyber version the backdrop that covers the     *)
(* screen while the side panel is open takes the clicks meant for the map. *)
(***************************************************************************)
EXTENDS Integers, Sequences, FiniteSets, TLC

VARIABLES
    variant,           \* which version of Home is mounted
    phase,             \* "mounting", "loaded", "loaded_bad", "ready", "crashed"
    pins,              \* useState<Pin[]>
    storage,           \* localStorage item "uni_tracker_pins"
    userLocation,      \* useState<L.LatLngTuple | null>
    isSidebarOpen,     \* useState(false)
    isAddingPin,       \* useState(false)
    selectedLocation,  \* useState<L.LatLng | null>
    isLocating,        \* useState(false) (soft, cyber)
    pinTitle,          \* useState("")
    pinDesc,           \* useState("")
    toast,             \* the toast() call of the latest handler, NoToast if it made none
    now,               \* the latest reading of Date.now()
    geoSupported,      \* navigator.geolocation is present
    inflight,          \* getCurrentPosition requests awaiting a callback, per call site
    watching,          \* a watchPosition subscription is active (cyber)
    watchId,           \* let watchId: the handle watchPosition returned (cyber)
    lastFix            \* the position most recently delivered by the geolocation provider

ui   == <<isSidebarOpen, isAddingPin, selectedLocation, pinTitle, pinDesc>>
geo  == <<geoSupported, inflight, watching, watchId, lastFix>>
vars == <<variant, phase, pins, storage, userLocation, isSidebarOpen, isAddingPin,
          selectedLocation, isLocating, pinTitle, pinDesc, toast, now,
          geoSupported, inflight, watching, watchId, lastFix>>

---------------------------------------------------------------------------
(* Bounds of the model *)

MaxAdds     == 1   \* pins added per session (the list also holds what storage held)
MaxAddsBare == 2   \* pins added per session in a browser without geolocation
MaxClock    == 2   \* Date.now() ranges over SessionStart..MaxClock
MaxInFlight == 2   \* outstanding getCurrentPosition requests per call site
MaxStored   == 2   \* pins in the list a session of SpecStore starts with

---------------------------------------------------------------------------
(* Values *)

Variants == {"minimal", "soft", "cyber"}

\* JavaScript null, for the L.LatLng state and for the LatLngTuple state
NullLatLng == [null |-> TRUE]
NullTuple  == <<>>

\* positions the map and the geolocation provider can report (lat # lng)
LatLngs == {[lat |-> 1, lng |-> 2], [lat |-> 2, lng |-> 1]}

\* strings the user can type are sequences of characters
Whitespace == {" ", "\t"}
TitleInputs == {<<>>, <<" ", "\t", " ">>, <<" ", "C", " ">>}
DescInputs  == {<<>>, <<"n">>}

\* toast({ title, variant })
Toast(title, kind) == [title |-> title, variant |-> kind]
NoToast == [title |-> "", variant |-> "none"]

Sites == {"auto", "initial", "locate", "quick"}

\* let watchId: number, before watchPosition has returned (undefined)
NoHandle == -1
\* the handles watchPosition can return: a number, zero or not
Handles == {0, 1}
\* if (watchId)
TruthyHandle(h) == h # NoHandle /\ h # 0

---------------------------------------------------------------------------
(* String.prototype.trim, Number.prototype.toString *)

RECURSIVE TrimStart(_)
TrimStart(s) ==
    IF s # <<>> /\ Head(s) \in Whitespace THEN TrimStart(Tail(s)) ELSE s

RECURSIVE TrimEnd(_)
TrimEnd(s) ==
    IF s # <<>> /\ s[Len(s)] \in Whitespace THEN TrimEnd(SubSeq(s, 1, Len(s) - 1)) ELSE s

Trim(s) == TrimEnd(TrimStart(s))

\* a JavaScript string is falsy exactly when it is empty
Falsy(s) == s = <<>>

Digits == <<"0", "1", "2", "3", "4", "5", "6", "7", "8", "9">>

RECURSIVE NumberToString(_)
NumberToString(n) ==
    IF n < 10 THEN <<Digits[n + 1]>>
    ELSE NumberToString(n \div 10) \o <<Digits[(n % 10) + 1]>>

---------------------------------------------------------------------------
(* JSON.stringify / JSON.parse of the pin list.  A JSON text is held as    *)
(* its syntax tree; Garbage is a text that is not JSON; NoItem is the      *)
(* null that getItem returns for a missing key.                            *)

NoItem  == [t |-> "none"]
Garbage == [t |-> "garbage"]
\* the empty string: a stored item, not JSON, and falsy
EmptyText == [t |-> "empty"]
\* the JSON text null
JNull == [t |-> "null"]

JNum(n) == [t |-> "num", v |-> n]
JStr(s) == [t |-> "str", v |-> s]
JMember(k, j) == [k |-> k, j |-> j]
JObj(members) == [t |-> "obj", v |-> members]
JArr(items) == [t |-> "arr", v |-> items]

PinKeys == <<"id", "lat", "lng", "title", "description", "timestamp">>

PinToJSON(p) ==
    JObj(<< JMember("id", JStr(p.id)),
            JMember("lat", JNum(p.lat)),
            JMember("lng", JNum(p.lng)),
            JMember("title", JStr(p.title)),
            JMember("description", JStr(p.description)),
            JMember("timestamp", JNum(p.timestamp)) >>)

JSONstringify(ps) == JArr([i \in 1..Len(ps) |-> PinToJSON(ps[i])])

\* the value of member k of a JSON object
Member(o, k) == (CHOOSE i \in 1..Len(o.v) : o.v[i].k = k)

IsPinJSON(j) ==
    /\ j.t = "obj"
    /\ Len(j.v) = Len(PinKeys)
    /\ \A i \in 1..Len(PinKeys) : j.v[i].k = PinKeys[i]
    /\ \A i \in 1..Len(PinKeys) :
          j.v[i].j.t = (IF PinKeys[i] \in {"lat", "lng", "timestamp"} THEN "num" ELSE "str")

JSONToPin(j) ==
    [id          |-> j.v[Member(j, "id")].j.v,
     lat         |-> j.v[Member(j, "lat")].j.v,
     lng         |-> j.v[Member(j, "lng")].j.v,
     title       |-> j.v[Member(j, "title")].j.v,
     description |-> j.v[Member(j, "description")].j.v,
     timestamp   |-> j.v[Member(j, "timestamp")].j.v]

\* JSON.parse: "throws" on a text that is not JSON, "pins" with the list for an
\* array of pin records, "other" for every other JSON value
JSONparse(text) ==
    IF text.t \in {"garbage", "empty"} THEN [kind |-> "throws", value |-> <<>>]
    ELSE IF text.t = "arr" /\ \A i \in 1..Len(text.v) : IsPinJSON(text.v[i])
         THEN [kind |-> "pins", value |-> [i \in 1..Len(text.v) |-> JSONToPin(text.v[i])]]
         ELSE [kind |-> "other", value |-> <<>>]

\* a pin saved by an earlier session (its clock reading precedes this session's)
StoredPin == [id |-> NumberToString(0), lat |-> 2, lng |-> 1,
              title |-> <<"L">>, description |-> <<>>, timestamp |-> 0]

\* a record with an empty title, as a slot filled by other code can hold it
UntitledPin == [StoredPin EXCEPT !.title = <<>>]

\* the first clock reading of this session
SessionStart == StoredPin.timestamp + 1

\* what the storage slot can hold when the component mounts
InitialStorage ==
    {NoItem, EmptyText, Garbage, JNull, JNum(StoredPin.lat), JStr(StoredPin.title),
     JObj(<<>>), JSONstringify(<<StoredPin>>), JSONstringify(<<UntitledPin>>)}


---------------------------------------------------------------------------
(* localStorage.setItem in the save effect.  setItem throws when the slot  *)
(* has no room for the text; whether it has is the browser's choice, and   *)
(* a text holding no more pins than the text it replaces always fits.  The *)
(* effect has no try/catch: the exception leaves the effect and React      *)
(* unmounts the component, which was in phase before the effect ran.       *)

Grows(text) == IF storage.t = "arr" THEN Len(text.v) > Len(storage.v) ELSE TRUE

\* mutant of setItem: the write is dropped
setItem_Dropped(text, before) ==
    storage' = storage /\ phase' = before

setItem(text, before) ==
    \/ storage' = text /\ phase' = before
    \/ Grows(text) /\ storage' = storage /\ phase' = "crashed"

---------------------------------------------------------------------------
(* The state after the first render, before any effect has run *)

Init ==
    /\ variant \in Variants
    /\ phase = "mounting"
    /\ pins = <<>>
    /\ storage \in InitialStorage
    /\ userLocation = NullTuple
    /\ isSidebarOpen = FALSE
    /\ isAddingPin = FALSE
    /\ selectedLocation = NullLatLng
    /\ isLocating = FALSE
    /\ pinTitle = <<>>
    /\ pinDesc = <<>>
    /\ toast = NoToast
    /\ now = SessionStart
    /\ geoSupported \in BOOLEAN
    /\ inflight = [s \in Sites |-> 0]
    /\ watching = FALSE
    /\ watchId = NoHandle
    /\ lastFix = NullLatLng

---------------------------------------------------------------------------
(* Mount: the effects of the first render, then the re-render they cause *)

\* mutant of LoadedPins: the loaded list is reversed
LoadedPins_Reversed(saved, current) ==
    IF saved \in {NoItem, EmptyText} THEN current
    ELSE IF JSONparse(saved).kind = "pins"
         THEN [i \in 1..Len(JSONparse(saved).value) |->
                  JSONparse(saved).value[Len(JSONparse(saved).value) + 1 - i]]
    ELSE current

\* the load effect: getItem, and setPins(JSON.parse(saved)) under try/catch
LoadedPins(saved, current) ==
    IF saved \in {NoItem, EmptyText} THEN current
    ELSE IF JSONparse(saved).kind = "pins" THEN JSONparse(saved).value
    ELSE current

\* the load effect handed setPins a value that is not an array
LoadedNonList(saved) == saved \notin {NoItem, EmptyText} /\ JSONparse(saved).kind = "other"

\* the geolocation effect of the first render (none in the minimal version)
MountGeolocation ==
    CASE variant = "minimal" ->
            UNCHANGED <<isLocating, toast, inflight, watching, watchId>>
      [] variant = "soft" ->
            /\ inflight' = IF geoSupported
                           THEN [inflight EXCEPT !["auto"] = @ + 1] ELSE inflight
            /\ UNCHANGED <<isLocating, toast, watching, watchId>>
      [] variant = "cyber" ->
            IF ~geoSupported
            THEN /\ toast' = Toast("GPS Not Supported", "destructive")
                 /\ UNCHANGED <<isLocating, inflight, watching, watchId>>
            ELSE /\ isLocating' = TRUE
                 /\ inflight' = [inflight EXCEPT !["initial"] = @ + 1]
                 /\ watching' = TRUE
                 /\ watchId' \in Handles
                 /\ UNCHANGED toast

\* the effects run in source order: geolocation, load, save.  The save effect
\* writes the pins of the render it belongs to; setPins takes effect at the
\* re-render.
MountEffects ==
    /\ phase = "mounting"
    /\ MountGeolocation
    /\ pins' = LoadedPins(storage, pins)
    /\ setItem(JSONstringify(pins), IF LoadedNonList(storage) THEN "loaded_bad" ELSE "loaded")
    /\ UNCHANGED <<variant, userLocation, ui, now, geoSupported, lastFix>>

\* the re-render after the mount effects: pins.map throws on a value that is
\* not an array; otherwise the save effect runs for the loaded list
MountRender ==
    /\ phase \in {"loaded", "loaded_bad"}
    /\ IF phase = "loaded_bad"
       THEN phase' = "crashed" /\ UNCHANGED storage
       ELSE setItem(JSONstringify(pins), "ready")
    /\ UNCHANGED <<variant, pins, userLocation, ui, isLocating, toast, now, geo>>

---------------------------------------------------------------------------
(* What the render offers *)

Ready == phase = "ready"

\* the side panel is in the document (the minimal version only slides it away)
PanelRendered == variant = "minimal" \/ isSidebarOpen
\* {selectedLocation && <form>} and {!selectedLocation && <list>}
FormRendered == PanelRendered /\ selectedLocation # NullLatLng
ListRendered == PanelRendered /\ selectedLocation = NullLatLng
\* the cyber version lays a backdrop over the map while the panel is open
MapClickable == ~(variant = "cyber" /\ isSidebarOpen)

---------------------------------------------------------------------------
(* Side panel *)

\* the list button: a toggle, except in the cyber version where it opens
ListButton ==
    /\ Ready
    /\ isSidebarOpen' = IF variant = "cyber" THEN TRUE ELSE ~isSidebarOpen
    /\ toast' = NoToast
    /\ UNCHANGED <<variant, phase, pins, storage, userLocation, isAddingPin,
                   selectedLocation, isLocating, pinTitle, pinDesc, now, geo>>

\* the panel's X button (and the cyber backdrop)
CloseSidebar ==
    /\ Ready /\ PanelRendered
    /\ isSidebarOpen' = FALSE
    /\ toast' = NoToast
    /\ UNCHANGED <<variant, phase, pins, storage, userLocation, isAddingPin,
                   selectedLocation, isLocating, pinTitle, pinDesc, now, geo>>

---------------------------------------------------------------------------
(* Add-mode, map clicks, the entry form *)

ArmHint ==
    CASE variant = "minimal" -> Toast("Tap anywhere on the map to drop a pin", "default")
      [] variant = "soft"    -> Toast("Tap map to drop pin", "default")
      [] variant = "cyber"   -> Toast("Input Mode Active", "default")

\* mutant of toggleAddMode: disarming leaves the pending location
toggleAddMode_KeepsPending ==
    /\ Ready
    /\ isAddingPin' = ~isAddingPin
    /\ toast' = IF ~isAddingPin THEN ArmHint ELSE NoToast
    /\ UNCHANGED <<variant, phase, pins, storage, userLocation, isSidebarOpen,
                   selectedLocation, isLocating, pinTitle, pinDesc, now, geo>>

\* the add-pin button's onClick
toggleAddMode ==
    /\ Ready
    /\ isAddingPin' = ~isAddingPin
    /\ IF ~isAddingPin
       THEN toast' = ArmHint /\ UNCHANGED selectedLocation
       ELSE selectedLocation' = NullLatLng /\ toast' = NoToast
    /\ UNCHANGED <<variant, phase, pins, storage, userLocation, isSidebarOpen,
                   isLocating, pinTitle, pinDesc, now, geo>>

\* mutant of handleMapClick: the click does not open the side panel
handleMapClick_NoSidebar(latlng) ==
    /\ Ready /\ MapClickable
    /\ IF isAddingPin
       THEN selectedLocation' = latlng
       ELSE UNCHANGED selectedLocation
    /\ toast' = NoToast
    /\ UNCHANGED <<variant, phase, pins, storage, userLocation, isSidebarOpen, isAddingPin,
                   isLocating, pinTitle, pinDesc, now, geo>>

\* mutant of handleMapClick: the isAddingPin test is missing
handleMapClick_Unguarded(latlng) ==
    /\ Ready /\ MapClickable
    /\ selectedLocation' = latlng
    /\ isSidebarOpen' = TRUE
    /\ toast' = NoToast
    /\ UNCHANGED <<variant, phase, pins, storage, userLocation, isAddingPin,
                   isLocating, pinTitle, pinDesc, now, geo>>

handleMapClick(latlng) ==
    /\ Ready /\ MapClickable
    /\ IF isAddingPin
       THEN selectedLocation' = latlng /\ isSidebarOpen' = TRUE
       ELSE UNCHANGED <<selectedLocation, isSidebarOpen>>
    /\ toast' = NoToast
    /\ UNCHANGED <<variant, phase, pins, storage, userLocation, isAddingPin,
                   isLocating, pinTitle, pinDesc, now, geo>>

\* the inputs' onChange
setPinTitle(value) ==
    /\ Ready /\ FormRendered
    /\ pinTitle' = value
    /\ toast' = NoToast
    /\ UNCHANGED <<variant, phase, pins, storage, userLocation, isSidebarOpen,
                   isAddingPin, selectedLocation, isLocating, pinDesc, now, geo>>

setPinDesc(value) ==
    /\ Ready /\ FormRendered
    /\ pinDesc' = value
    /\ toast' = NoToast
    /\ UNCHANGED <<variant, phase, pins, storage, userLocation, isSidebarOpen,
                   isAddingPin, selectedLocation, isLocating, pinTitle, now, geo>>

\* mutant of Cancel: the button disarms add-mode and leaves the pending location
Cancel_OnlyDisarms ==
    /\ Ready /\ FormRendered /\ variant \in {"minimal", "soft"}
    /\ isAddingPin' = FALSE
    /\ toast' = NoToast
    /\ UNCHANGED <<variant, phase, pins, storage, userLocation, isSidebarOpen,
                   selectedLocation, isLocating, pinTitle, pinDesc, now, geo>>

\* the Cancel button (the cyber form has none)
Cancel ==
    /\ Ready /\ FormRendered /\ variant \in {"minimal", "soft"}
    /\ selectedLocation' = NullLatLng
    /\ isAddingPin' = IF variant = "minimal" THEN FALSE ELSE isAddingPin
    /\ toast' = NoToast
    /\ UNCHANGED <<variant, phase, pins, storage, userLocation, isSidebarOpen,
                   isLocating, pinTitle, pinDesc, now, geo>>


---------------------------------------------------------------------------
(* savePin, deletePin, flyToPin *)

\* mutant of IsBlank: the title is tested without trim()
IsBlank_NoTrim(title) == Falsy(title)

\* !pinTitle.trim()
IsBlank(title) == Falsy(Trim(title))

TitleRequired ==
    CASE variant = "minimal" -> Toast("Please enter a title", "destructive")
      [] variant = "soft"    -> Toast("Give it a name!", "destructive")
      [] variant = "cyber"   -> Toast("Input Required", "destructive")

PinSaved ==
    CASE variant = "minimal" -> Toast("Location pinned successfully!", "default")
      [] variant = "soft"    -> Toast("Spot saved!", "default")
      [] variant = "cyber"   -> Toast("Spot Encoded", "default")

\* what Date.now() can return after it returned t: the clock does not run
\* backwards, and it need not have advanced
ClockReadings(t) == {t} \cup (IF t < MaxClock THEN {t + 1} ELSE {})

\* the newPin literal; t1 and t2 are the two readings of Date.now()
NewPin(loc, title, desc, t1, t2) ==
    [id          |-> NumberToString(t1),
     lat         |-> loc.lat,
     lng         |-> loc.lng,
     title       |-> title,
     description |-> desc,
     timestamp   |-> t2]

\* mutant of WithNewPin: the new list holds the new pin only
WithNewPin_DropsOld(ps, p) == <<p>>

\* mutant of WithNewPin: the commit also stamps the pins already in the list
WithNewPin_Restamps(ps, p) ==
    IF variant = "minimal"
    THEN Append([i \in DOMAIN ps |-> [ps[i] EXCEPT !.timestamp = p.timestamp]], p)
    ELSE <<p>> \o [i \in DOMAIN ps |-> [ps[i] EXCEPT !.timestamp = p.timestamp]]

\* [...pins, newPin] in the minimal version, [newPin, ...pins] in the others
WithNewPin(ps, p) ==
    IF variant = "minimal" THEN Append(ps, p) ELSE <<p>> \o ps

\* the pins of ps created since the component mounted
AddedThisSession(ps) == Cardinality({i \in DOMAIN ps : ps[i].timestamp >= SessionStart})

\* the model follows a session up to this many added pins: further where the
\* browser has no geolocation and the session has fewer states
AddBudget == IF geoSupported THEN MaxAdds ELSE MaxAddsBare

\* mutant of SavePinRejected: the rejected commit also resets the form
SavePinRejected_ClearsForm ==
    /\ toast' = TitleRequired
    /\ pinTitle' = <<>>
    /\ pinDesc' = <<>>
    /\ selectedLocation' = NullLatLng
    /\ isAddingPin' = FALSE
    /\ UNCHANGED <<phase, pins, storage, isSidebarOpen, now>>

\* the validation branch: a toast and return
SavePinRejected ==
    /\ toast' = TitleRequired
    /\ UNCHANGED <<phase, pins, storage, ui, now>>

\* mutant of SavePinAccepted: setIsAddingPin(false) is missing
SavePinAccepted_StaysArmed ==
    /\ AddedThisSession(pins) < AddBudget
    /\ \E t1 \in ClockReadings(now) : \E t2 \in ClockReadings(t1) :
          /\ pins' = WithNewPin(pins, NewPin(selectedLocation, pinTitle, pinDesc, t1, t2))
          /\ now' = t2
    /\ pinTitle' = <<>>
    /\ pinDesc' = <<>>
    /\ selectedLocation' = NullLatLng
    /\ toast' = PinSaved
    /\ setItem(JSONstringify(pins'), phase)
    /\ UNCHANGED <<isSidebarOpen, isAddingPin>>

\* the rest of savePin, and the save effect of the re-render
SavePinAccepted ==
    /\ AddedThisSession(pins) < AddBudget
    /\ \E t1 \in ClockReadings(now) : \E t2 \in ClockReadings(t1) :
          /\ pins' = WithNewPin(pins, NewPin(selectedLocation, pinTitle, pinDesc, t1, t2))
          /\ now' = t2
    /\ pinTitle' = <<>>
    /\ pinDesc' = <<>>
    /\ selectedLocation' = NullLatLng
    /\ isAddingPin' = FALSE
    /\ toast' = PinSaved
    /\ setItem(JSONstringify(pins'), phase)
    /\ UNCHANGED isSidebarOpen

savePin ==
    /\ Ready /\ FormRendered
    /\ IF selectedLocation = NullLatLng
       THEN UNCHANGED <<phase, pins, storage, ui, now, toast>>
       ELSE IF IsBlank(pinTitle) THEN SavePinRejected ELSE SavePinAccepted
    /\ UNCHANGED <<variant, userLocation, isLocating, geo>>

PinRemoved ==
    IF variant = "cyber" THEN Toast("Pin Purged", "default") ELSE Toast("Pin removed", "default")

\* mutant of WithoutId: pins.splice(pins.findIndex(p => p.id === id), 1), which
\* removes the last pin when no pin carries the id
WithoutId_Splice(ps, id) ==
    IF \E i \in DOMAIN ps : ps[i].id = id
    THEN SelectSeq(ps, LAMBDA p : p.id # id)
    ELSE SubSeq(ps, 1, Len(ps) - 1)

\* pins.filter(p => p.id !== id)
WithoutId(ps, id) == SelectSeq(ps, LAMBDA p : p.id # id)

\* the trash button of list entry i, and the save effect of the re-render
deletePin(id) ==
    /\ Ready /\ ListRendered
    /\ pins' = WithoutId(pins, id)
    /\ toast' = PinRemoved
    /\ setItem(JSONstringify(pins'), phase)
    /\ UNCHANGED <<variant, userLocation, ui, isLocating, now, geo>>

\* mutant of flyToPin: selecting a pin also disarms add-mode
flyToPin_Disarms(lat, lng, narrow) ==
    /\ Ready /\ ListRendered
    /\ userLocation' = <<lat, lng>>
    /\ isSidebarOpen' = IF variant = "minimal" \/ narrow THEN FALSE ELSE isSidebarOpen
    /\ isAddingPin' = FALSE
    /\ toast' = NoToast
    /\ UNCHANGED <<variant, phase, pins, storage, selectedLocation,
                   isLocating, pinTitle, pinDesc, now, geo>>

\* a click on a list entry; narrow is window.innerWidth < 640
flyToPin(lat, lng, narrow) ==
    /\ Ready /\ ListRendered
    /\ userLocation' = <<lat, lng>>
    /\ isSidebarOpen' = IF variant = "minimal" \/ narrow THEN FALSE ELSE isSidebarOpen
    /\ toast' = NoToast
    /\ UNCHANGED <<variant, phase, pins, storage, isAddingPin, selectedLocation,
                   isLocating, pinTitle, pinDesc, now, geo>>

\* the list renders one entry per pin: onClick={() => flyToPin(pin.lat, pin.lng)}
\* and, on its trash button, deletePin(pin.id)
EntryClick ==
    \E i \in DOMAIN pins, narrow \in BOOLEAN : flyToPin(pins[i].lat, pins[i].lng, narrow)

TrashClick ==
    \E i \in DOMAIN pins : deletePin(pins[i].id)

---------------------------------------------------------------------------
(* Geolocation *)

Request(site)  == [inflight EXCEPT ![site] = @ + 1]
Settle(site)   == [inflight EXCEPT ![site] = @ - 1]
Tuple(latlng)  == <<latlng.lat, latlng.lng>>

\* the locate button (minimal, soft; disabled={isLocating} in soft)
handleLocateMe ==
    /\ Ready /\ variant \in {"minimal", "soft"}
    /\ variant = "soft" => ~isLocating
    /\ IF ~geoSupported
       THEN /\ toast' = IF variant = "minimal"
                        THEN Toast("Geolocation is not supported by your browser.", "destructive")
                        ELSE Toast("Geolocation not supported", "destructive")
            /\ UNCHANGED <<isLocating, inflight>>
       ELSE /\ inflight["locate"] < MaxInFlight
            /\ inflight' = Request("locate")
            /\ IF variant = "minimal"
               THEN toast' = Toast("Locating you...", "default") /\ UNCHANGED isLocating
               ELSE toast' = NoToast /\ isLocating' = TRUE
    /\ UNCHANGED <<variant, phase, pins, storage, userLocation, ui, now,
                   geoSupported, watching, watchId, lastFix>>

LocateSuccess(position) ==
    /\ Ready /\ inflight["locate"] > 0
    /\ inflight' = Settle("locate")
    /\ userLocation' = Tuple(position)
    /\ lastFix' = position
    /\ isLocating' = IF variant = "soft" THEN FALSE ELSE isLocating
    /\ toast' = NoToast
    /\ UNCHANGED <<variant, phase, pins, storage, ui, now, geoSupported, watching, watchId>>

LocateFailure ==
    /\ Ready /\ inflight["locate"] > 0
    /\ inflight' = Settle("locate")
    /\ isLocating' = IF variant = "soft" THEN FALSE ELSE isLocating
    /\ toast' = IF variant = "minimal"
                THEN Toast("Unable to retrieve your location.", "destructive")
                ELSE Toast("Position unavailable", "destructive")
    /\ UNCHANGED <<variant, phase, pins, storage, userLocation, ui, now,
                   geoSupported, watching, watchId, lastFix>>

\* the cyber version's navigation button re-centers on the held location
Recenter ==
    /\ Ready /\ variant = "cyber"
    /\ toast' = IF userLocation # NullTuple
                THEN Toast("Recalibrating...", "default") ELSE NoToast
    /\ UNCHANGED <<variant, phase, pins, storage, userLocation, ui, isLocating, now, geo>>

\* the auto-locate request of the soft version's mount
AutoSuccess(position) ==
    /\ Ready /\ inflight["auto"] > 0
    /\ inflight' = Settle("auto")
    /\ userLocation' = Tuple(position)
    /\ lastFix' = position
    /\ toast' = Toast("Found your location!", "default")
    /\ UNCHANGED <<variant, phase, pins, storage, ui, isLocating, now,
                   geoSupported, watching, watchId>>

AutoFailure ==
    /\ Ready /\ inflight["auto"] > 0
    /\ inflight' = Settle("auto")
    /\ toast' = NoToast
    /\ UNCHANGED <<variant, phase, pins, storage, userLocation, ui, isLocating, now,
                   geoSupported, watching, watchId, lastFix>>

\* the initial getCurrentPosition of the cyber version's tracking effect
InitialSuccess(position) ==
    /\ Ready /\ inflight["initial"] > 0
    /\ inflight' = Settle("initial")
    /\ userLocation' = Tuple(position)
    /\ lastFix' = position
    /\ isLocating' = FALSE
    /\ toast' = Toast("System Online", "default")
    /\ UNCHANGED <<variant, phase, pins, storage, ui, now, geoSupported, watching, watchId>>

InitialFailure ==
    /\ Ready /\ inflight["initial"] > 0
    /\ inflight' = Settle("initial")
    /\ isLocating' = FALSE
    /\ toast' = Toast("GPS Connection Failed", "destructive")
    /\ UNCHANGED <<variant, phase, pins, storage, userLocation, ui, now,
                   geoSupported, watching, watchId, lastFix>>

\* the watchPosition success callback (its error callback is null)
WatchUpdate(position) ==
    /\ Ready /\ watching
    /\ userLocation' = Tuple(position)
    /\ lastFix' = position
    /\ toast' = NoToast
    /\ UNCHANGED <<variant, phase, pins, storage, ui, isLocating, now,
                   geoSupported, inflight, watching, watchId>>

\* quick capture in the cyber version reads the held location
QuickPinFromLocation ==
    IF userLocation = NullTuple
    THEN /\ toast' = Toast("Waiting for GPS...", "destructive")
         /\ UNCHANGED <<selectedLocation, isSidebarOpen, isAddingPin, inflight>>
    ELSE /\ selectedLocation' = [lat |-> userLocation[1], lng |-> userLocation[2]]
         /\ isSidebarOpen' = TRUE
         /\ isAddingPin' = FALSE
         /\ toast' = Toast("Capturing Coordinates...", "default")
         /\ UNCHANGED inflight

\* quick capture in the soft version asks the provider for a position
QuickPinRequest ==
    IF ~geoSupported
    THEN /\ toast' = Toast("Geolocation not supported", "destructive")
         /\ UNCHANGED <<selectedLocation, isSidebarOpen, isAddingPin, inflight>>
    ELSE /\ inflight["quick"] < MaxInFlight
         /\ inflight' = Request("quick")
         /\ toast' = Toast("Capturing current spot...", "default")
         /\ UNCHANGED <<selectedLocation, isSidebarOpen, isAddingPin>>

handleQuickPin ==
    /\ Ready /\ variant \in {"soft", "cyber"}
    /\ IF variant = "cyber" THEN QuickPinFromLocation ELSE QuickPinRequest
    /\ UNCHANGED <<variant, phase, pins, storage, userLocation, isLocating,
                   pinTitle, pinDesc, now, geoSupported, watching, watchId, lastFix>>

QuickSuccess(position) ==
    /\ Ready /\ inflight["quick"] > 0
    /\ inflight' = Settle("quick")
    /\ selectedLocation' = position
    /\ userLocation' = Tuple(position)
    /\ isSidebarOpen' = TRUE
    /\ isAddingPin' = FALSE
    /\ lastFix' = position
    /\ toast' = NoToast
    /\ UNCHANGED <<variant, phase, pins, storage, isLocating, pinTitle, pinDesc,
                   now, geoSupported, watching, watchId>>

\* the watch's error callback is null: an error of the watch reaches no code
WatchError ==
    /\ Ready /\ watching
    /\ toast' = NoToast
    /\ UNCHANGED <<variant, phase, pins, storage, userLocation, ui, isLocating, now, geo>>

\* the component is unmounted: its state is discarded and the cleanup of the
\* tracking effect runs (cyber), if (watchId) clearWatch(watchId); requests in
\* flight stay in flight
Unmount ==
    /\ Ready
    /\ phase' = "unmounted"
    /\ watching' = IF variant = "cyber" /\ TruthyHandle(watchId) THEN FALSE ELSE watching
    /\ pins' = <<>>
    /\ userLocation' = NullTuple
    /\ isSidebarOpen' = FALSE
    /\ isAddingPin' = FALSE
    /\ selectedLocation' = NullLatLng
    /\ isLocating' = FALSE
    /\ pinTitle' = <<>>
    /\ pinDesc' = <<>>
    /\ toast' = NoToast
    /\ UNCHANGED <<variant, storage, now, geoSupported, inflight, watchId, lastFix>>

\* mutant of QuickFailure: the error callback also disarms add-mode
QuickFailure_Disarms ==
    /\ Ready /\ inflight["quick"] > 0
    /\ inflight' = Settle("quick")
    /\ isAddingPin' = FALSE
    /\ toast' = Toast("Could not get current location", "destructive")
    /\ UNCHANGED <<variant, phase, pins, storage, userLocation, isSidebarOpen,
                   selectedLocation, pinTitle, pinDesc, isLocating, now,
                   geoSupported, watching, watchId, lastFix>>

\* the error callback of quick capture's request
QuickFailure ==
    /\ Ready /\ inflight["quick"] > 0
    /\ inflight' = Settle("quick")
    /\ toast' = Toast("Could not get current location", "destructive")
    /\ UNCHANGED <<variant, phase, pins, storage, userLocation, ui, isLocating, now,
                   geoSupported, watching, watchId, lastFix>>

---------------------------------------------------------------------------

Next ==
    \/ MountEffects
    \/ MountRender
    \/ ListButton
    \/ CloseSidebar
    \/ toggleAddMode
    \/ \E latlng \in LatLngs : handleMapClick(latlng)
    \/ \E value \in TitleInputs : setPinTitle(value)
    \/ \E value \in DescInputs : setPinDesc(value)
    \/ Cancel
    \/ savePin
    \/ TrashClick
    \/ EntryClick
    \/ handleLocateMe
    \/ \E position \in LatLngs : LocateSuccess(position)
    \/ LocateFailure
    \/ Recenter
    \/ \E position \in LatLngs : AutoSuccess(position)
    \/ AutoFailure
    \/ \E position \in LatLngs : InitialSuccess(position)
    \/ InitialFailure
    \/ \E position \in LatLngs : WatchUpdate(position)
    \/ WatchError
    \/ Unmount
    \/ handleQuickPin
    \/ \E position \in LatLngs : QuickSuccess(position)
    \/ QuickFailure

Spec == Init /\ [][Next]_vars

---------------------------------------------------------------------------
(* The pin list against the storage slot: a session that holds any list of *)
(* valid pins, saved by its save effect; the page is reloaded and the list *)
(* comes back through the load effect; deletePin is called with any id,    *)
(* carried by a pin of the list or not.                                    *)

\* pins as savePin builds them, and the pin of an earlier session
SamplePins ==
    {StoredPin} \cup
    {NewPin(loc, title, desc, t1, t2) :
        loc \in LatLngs, title \in {t \in TitleInputs : ~IsBlank(t)}, desc \in DescInputs,
        t1 \in {SessionStart}, t2 \in ClockReadings(SessionStart)}

RECURSIVE ListsUpTo(_, _)
ListsUpTo(S, n) ==
    IF n = 0 THEN {<<>>}
    ELSE ListsUpTo(S, n - 1) \cup
         {Append(l, x) : l \in {m \in ListsUpTo(S, n - 1) : Len(m) = n - 1}, x \in S}

PinLists == ListsUpTo(SamplePins, MaxStored)

\* the ids deletePin is called with: those of the sample pins and one that
\* no pin carries
SampleIds == {p.id : p \in SamplePins} \cup {NumberToString(MaxClock + 1)}

InitStore ==
    /\ variant \in Variants
    /\ phase = "ready"
    /\ pins \in PinLists
    /\ storage = JSONstringify(pins)
    /\ userLocation = NullTuple
    /\ isSidebarOpen = FALSE
    /\ isAddingPin = FALSE
    /\ selectedLocation = NullLatLng
    /\ isLocating = FALSE
    /\ pinTitle = <<>>
    /\ pinDesc = <<>>
    /\ toast = NoToast
    /\ now = MaxClock
    /\ geoSupported \in BOOLEAN
    /\ inflight = [s \in Sites |-> 0]
    /\ watching = (variant = "cyber" /\ geoSupported)
    /\ watchId \in (IF watching THEN Handles ELSE {NoHandle})
    /\ lastFix = NullLatLng

\* the page is reloaded: the component state is that of a first render again,
\* the storage slot keeps what it held
Reload ==
    /\ Ready
    /\ phase' = "mounting"
    /\ pins' = <<>>
    /\ userLocation' = NullTuple
    /\ isSidebarOpen' = FALSE
    /\ isAddingPin' = FALSE
    /\ selectedLocation' = NullLatLng
    /\ isLocating' = FALSE
    /\ pinTitle' = <<>>
    /\ pinDesc' = <<>>
    /\ toast' = NoToast
    /\ inflight' = [s \in Sites |-> 0]
    /\ watching' = FALSE
    /\ watchId' = NoHandle
    /\ lastFix' = NullLatLng
    /\ UNCHANGED <<variant, storage, now, geoSupported>>

\* deletePin(id) for any string id
DeleteCall == \E id \in SampleIds : deletePin(id)

NextStore ==
    \/ Reload
    \/ MountEffects
    \/ MountRender
    \/ ListButton
    \/ DeleteCall

SpecStore == InitStore /\ [][NextStore]_vars


---------------------------------------------------------------------------
(* The controller states of the specification, read off the component state *)

Idle         == ~isAddingPin /\ selectedLocation = NullLatLng
AddModeArmed == isAddingPin /\ selectedLocation = NullLatLng
PendingEntry == selectedLocation # NullLatLng

\* the title is "" or consists only of whitespace
OnlyWhitespace(s) == \A i \in 1..Len(s) : s[i] \in Whitespace

\* list s without its element i
RemoveAt(s, i) == SubSeq(s, 1, i - 1) \o SubSeq(s, i + 1, Len(s))

\* list t is list s with exactly one pin added, located at loc
OneNewPinAt(s, t, loc) ==
    \E i \in DOMAIN t :
        /\ RemoveAt(t, i) = s
        /\ t[i].lat = loc.lat
        /\ t[i].lng = loc.lng

\* everything the component and its environment hold, but the latest toast
frame == <<variant, phase, pins, storage, userLocation, isSidebarOpen, isAddingPin,
           selectedLocation, isLocating, pinTitle, pinDesc, now,
           geoSupported, inflight, watching, watchId, lastFix>>

---------------------------------------------------------------------------
(* C1: a commit with a title that is not blank, from a pending entry at c,  *)
(* adds exactly one pin; the pin has lat/lng of c, the title and the        *)
(* description of the form (so "" when the form's description is ""), and   *)
(* the pins that were in the list are all still there, unchanged and in     *)
(* the same order.  All three versions.                                     *)
C1_CommitAddsOnePin ==
    [][(savePin /\ ~OnlyWhitespace(pinTitle)) =>
          /\ Len(pins') = Len(pins) + 1
          /\ \E i \in DOMAIN pins' :
                /\ RemoveAt(pins', i) = pins
                /\ pins'[i].lat = selectedLocation.lat
                /\ pins'[i].lng = selectedLocation.lng
                /\ pins'[i].title = pinTitle
                /\ pins'[i].description = pinDesc
                /\ (pinDesc = <<>> => pins'[i].description = <<>>)]_vars

\* a commit with an empty description has been added to a list that held a pin
C1_Witness ==
    /\ toast = PinSaved
    /\ Len(pins) = 2
    /\ \E i \in DOMAIN pins :
          pins[i].timestamp >= SessionStart /\ pins[i].description = <<>>

(* C2: a commit whose title is "" or only whitespace leaves the pin list    *)
(* and the stored copy exactly as they were and raises an error toast.      *)
C2_BlankTitleRejected ==
    [][(savePin /\ OnlyWhitespace(pinTitle)) =>
          /\ pins' = pins
          /\ storage' = storage
          /\ toast'.variant = "destructive"]_vars

\* a whitespace-only title has just been refused while the list held a pin
C2_Witness ==
    /\ toast = TitleRequired
    /\ pinTitle # <<>>
    /\ OnlyWhitespace(pinTitle)
    /\ pins # <<>>

(* C3: the refused commit leaves the controller in PendingEntry: pending    *)
(* location, typed description, typed title and add-mode flag unchanged.    *)
C3_RejectionKeepsForm ==
    [][(savePin /\ OnlyWhitespace(pinTitle)) =>
          /\ selectedLocation' = selectedLocation
          /\ selectedLocation' # NullLatLng
          /\ pinDesc' = pinDesc
          /\ pinTitle' = pinTitle
          /\ isAddingPin' = isAddingPin]_vars

\* a commit has just been refused with a description typed and add-mode armed
C3_Witness ==
    /\ toast = TitleRequired
    /\ PendingEntry
    /\ pinDesc # <<>>
    /\ isAddingPin

(* C4: a successful commit from PendingEntry(c) ends in Idle (no pending    *)
(* location, add-mode disarmed) with exactly one new pin, at c.             *)
C4_CommitReturnsToIdle ==
    [][(savePin /\ ~OnlyWhitespace(pinTitle)) =>
          /\ selectedLocation' = NullLatLng
          /\ isAddingPin' = FALSE
          /\ OneNewPinAt(pins, pins', selectedLocation)]_vars

\* a commit has just succeeded
C4_Witness ==
    /\ toast = PinSaved
    /\ Idle
    /\ \E i \in DOMAIN pins : pins[i].timestamp >= SessionStart

(* C5: Cancel from PendingEntry ends in Idle with no pin added: pending     *)
(* location null, add-mode disarmed, pin list unchanged; in every version   *)
(* that has a Cancel button.                                                *)
C5_CancelReturnsToIdle ==
    [][Cancel =>
          /\ selectedLocation' = NullLatLng
          /\ isAddingPin' = FALSE
          /\ pins' = pins]_vars

(* C6: the add-mode toggle takes Idle to AddModeArmed; with add-mode armed  *)
(* it disarms and clears any pending location, which is Idle; it never      *)
(* changes the pin list.                                                    *)
C6_ToggleAlternates ==
    [][toggleAddMode =>
          /\ (Idle => (isAddingPin' /\ selectedLocation' = NullLatLng))
          /\ (isAddingPin => (~isAddingPin' /\ selectedLocation' = NullLatLng))
          /\ pins' = pins]_vars

\* add-mode has just been armed from Idle, with a pin in the list
C6_Witness ==
    /\ toast = ArmHint
    /\ AddModeArmed
    /\ pins # <<>>

(* C7: a map click at c in AddModeArmed gives PendingEntry(c): the pending  *)
(* location is c, the side panel is open, the pin list is unchanged.        *)
C7_ArmedClickPends ==
    [][\A c \in LatLngs :
          (handleMapClick(c) /\ AddModeArmed) =>
              /\ selectedLocation' = c
              /\ isSidebarOpen' = TRUE
              /\ pins' = pins]_vars

\* a pending entry that a map click opened
C7_Witness ==
    /\ Ready
    /\ PendingEntry
    /\ isAddingPin
    /\ isSidebarOpen
    /\ lastFix = NullLatLng
    /\ userLocation = NullTuple

(* C8 as stated: a map click outside AddModeArmed (in Idle, or with a       *)
(* pending entry open) changes neither the pending location nor any other   *)
(* state.                                                                   *)
C8_ClickIgnoredUnlessArmed ==
    [][\A c \in LatLngs :
          (handleMapClick(c) /\ ~AddModeArmed) => UNCHANGED frame]_vars

(* C8 amended: a map click while isAddingPin is false (Idle, or a pending   *)
(* entry opened by quick capture) changes no state; the click is acted on   *)
(* exactly when isAddingPin is true, also on top of a pending entry.        *)
C8_ClickIgnoredUnlessAdding ==
    [][\A c \in LatLngs :
          /\ (handleMapClick(c) /\ ~isAddingPin) => UNCHANGED frame
          /\ (handleMapClick(c) /\ isAddingPin) => selectedLocation' = c]_vars

\* a pending entry with add-mode off and the map open to clicks
C8_Witness ==
    /\ Ready
    /\ MapClickable
    /\ PendingEntry
    /\ ~isAddingPin
    /\ toast = NoToast

(* C9: in the cyber version, quick capture while the geolocation provider   *)
(* has delivered no position yet creates no pending entry, leaves the       *)
(* controller state and the pin list unchanged and raises an error toast,   *)
(* whatever the user did before.                                            *)
C9_QuickCaptureNeedsFix ==
    [][(handleQuickPin /\ variant = "cyber" /\ lastFix = NullLatLng) =>
          /\ UNCHANGED <<selectedLocation, isAddingPin, isSidebarOpen, pins>>
          /\ toast'.variant = "destructive"]_vars

(* C10: quick capture from Idle or AddModeArmed with a live coordinate      *)
(* available opens a pending entry at the position the provider delivered   *)
(* most recently, and disarms add-mode.                                     *)
C10_QuickCaptureUsesLatestFix ==
    [][/\ (handleQuickPin /\ variant = "cyber" /\ lastFix # NullLatLng /\ ~PendingEntry) =>
              (selectedLocation' = lastFix /\ isAddingPin' = FALSE)
       /\ ((\E p \in LatLngs : QuickSuccess(p)) /\ ~PendingEntry) =>
              (selectedLocation' = lastFix' /\ isAddingPin' = FALSE)]_vars


(* C11: the failure callback of a one-shot position request (locate-me,    *)
(* the request made on mount, quick capture) leaves the pin list, the       *)
(* pending location, the add-mode flag and the live coordinate unchanged;   *)
(* a failed quick capture opens no pending entry.                           *)
C11_FailureKeepsCoreState ==
    [][(LocateFailure \/ AutoFailure \/ InitialFailure \/ QuickFailure) =>
          /\ UNCHANGED <<pins, selectedLocation, isAddingPin, userLocation>>
          /\ (QuickFailure /\ ~PendingEntry => ~PendingEntry')]_vars

\* quick capture has just failed while add-mode was armed and a position held
C11_Witness ==
    /\ toast = Toast("Could not get current location", "destructive")
    /\ AddModeArmed
    /\ userLocation # NullTuple
    /\ pins # <<>>

(* C12 as stated: selecting a pin from the list, from every state in which  *)
(* the list is offered (AddModeArmed included), ends in Idle, sets the      *)
(* recenter target to the pin's coordinate and leaves the pin list          *)
(* unchanged.                                                               *)
C12_SelectReturnsToIdle ==
    [][\A i \in DOMAIN pins : \A narrow \in BOOLEAN :
          flyToPin(pins[i].lat, pins[i].lng, narrow) =>
              /\ Idle'
              /\ userLocation' = <<pins[i].lat, pins[i].lng>>
              /\ pins' = pins]_vars

(* C12 amended: selecting a pin from the list leaves the controller state   *)
(* as it was (Idle stays Idle, AddModeArmed stays AddModeArmed; the list is *)
(* not offered while an entry is pending), sets the recenter target to the  *)
(* pin's coordinate and leaves the pin list unchanged.                      *)
C12_SelectKeepsController ==
    [][\A i \in DOMAIN pins : \A narrow \in BOOLEAN :
          flyToPin(pins[i].lat, pins[i].lng, narrow) =>
              /\ ~PendingEntry /\ ~PendingEntry'
              /\ isAddingPin' = isAddingPin
              /\ userLocation' = <<pins[i].lat, pins[i].lng>>
              /\ pins' = pins]_vars

\* a pin has been selected from the list with add-mode armed: the recenter
\* target is the pin's coordinate, which no position fix delivered
C12_Witness ==
    /\ AddModeArmed
    /\ toast = NoToast
    /\ lastFix = NullLatLng
    /\ \E i \in DOMAIN pins : userLocation = <<pins[i].lat, pins[i].lng>>


\* a stored item that is not the JSON text of a list of pin records
Malformed(text) == text # NoItem /\ JSONparse(text).kind # "pins"

(* C13: a mount over a stored item that is not JSON, or is JSON but not a   *)
(* list of pin records, leaves the in-memory pin list the empty list (the   *)
(* load effect hands setPins nothing that is not a list), and the render    *)
(* that follows the load throws no error.                                   *)
C13_MalformedStorageRecovered ==
    [][/\ (MountEffects /\ Malformed(storage)) =>
              (pins' = <<>> /\ phase' # "loaded_bad")
       /\ (MountRender /\ phase = "loaded_bad") => phase' # "crashed"]_vars

(* C17: when the write of the pin list fails (setItem throws) after an add, *)
(* the failure is reported to the user, the in-memory list keeps the new    *)
(* pin, and the screen stays usable (it is not crashed).                    *)
C17_WriteFailureSurvived ==
    [][(savePin /\ pins' # pins /\ storage' # JSONstringify(pins')) =>
          /\ toast'.variant = "destructive"
          /\ Len(pins') = Len(pins) + 1
          /\ phase' = "ready"]_vars


(* C14: every list P of valid pins, saved by the save effect and loaded by  *)
(* the load effect of a fresh mount, comes back as P: same length, same     *)
(* order, the same six fields for each pin.                                 *)
C14_RoundTrip ==
    [][MountEffects =>
          \A P \in PinLists : storage = JSONstringify(P) => pins' = P]_vars

\* a reloaded page (the soft version has asked for a position again) holding
\* two different pins, one of them with a description
C14_Witness ==
    /\ Ready
    /\ inflight["auto"] > 0
    /\ Len(pins) = MaxStored
    /\ pins[1] # pins[Len(pins)]
    /\ \E i \in DOMAIN pins : pins[i].description # <<>>
    /\ storage = JSONstringify(pins)

(* C16: deletePin(id) with an id that no pin of the list carries leaves the *)
(* list as it was, same pins in the same order, and raises no error; after  *)
(* any deletePin(id) no pin carries id, so a second deletePin(id) is such a *)
(* call and changes nothing.                                                *)
C16_DeleteAbsentIsNoOp ==
    [][\A id \in SampleIds :
          deletePin(id) =>
              /\ (\A i \in DOMAIN pins : pins[i].id # id) =>
                     /\ pins' = pins
                     /\ phase' = "ready"
                     /\ toast'.variant # "destructive"
              /\ \A i \in DOMAIN pins' : pins'[i].id # id]_vars

\* a delete has left a full list as it was: its id was carried by no pin
C16_Witness ==
    /\ toast = PinRemoved
    /\ Len(pins) = MaxStored
    /\ storage = JSONstringify(pins)


(* C15: in every reachable state no two pins of the list carry the same id, *)
(* whether the clock advanced between the commits that made them or not,    *)
(* and whether they were committed in this session or loaded from storage.  *)
C15_IdsAreUnique ==
    \A i \in DOMAIN pins : \A j \in DOMAIN pins : i # j => pins[i].id # pins[j].id


(* C18: whenever the screen can take a user action, the stored item is the  *)
(* JSON text of the whole in-memory pin list: the save effect that follows  *)
(* an add or a delete has overwritten the item with the full list before    *)
(* the next action is processed.  (A write that throws ends the session,    *)
(* C17: no user action follows it.)                                         *)
C18_StorageMirrorsList ==
    Ready => storage = JSONstringify(pins)

\* a pin was added to a loaded list and another pin deleted since: the item
\* holds exactly the list that is left
C18_Witness ==
    /\ Ready
    /\ toast = PinRemoved
    /\ pins # <<>>
    /\ \A i \in DOMAIN pins : pins[i].timestamp >= SessionStart
    /\ geoSupported
    /\ storage = JSONstringify(pins)


(* C19: in every reachable state every pin of the in-memory list and every  *)
(* pin of the stored list has a title with at least one character that is   *)
(* not whitespace, pins loaded from storage at mount included.              *)
C19_TitlesNotBlank ==
    /\ \A i \in DOMAIN pins : ~OnlyWhitespace(pins[i].title)
    /\ (phase # "mounting" /\ JSONparse(storage).kind = "pins") =>
          \A i \in DOMAIN JSONparse(storage).value :
              ~OnlyWhitespace(JSONparse(storage).value[i].title)


\* list a is list b with some elements left out, the others in b's order
RECURSIVE IsSubSeq(_, _)
IsSubSeq(a, b) ==
    IF a = <<>> THEN TRUE
    ELSE IF b = <<>> THEN FALSE
    ELSE IF Head(a) = Head(b) THEN IsSubSeq(Tail(a), Tail(b))
    ELSE IsSubSeq(a, Tail(b))

\* list t is list s without its pins that carry id, the others as they were
RemovedById(s, t, id) ==
    /\ IsSubSeq(t, s)
    /\ \A i \in DOMAIN t : t[i].id # id
    /\ Len(t) = Len(s) - Cardinality({i \in DOMAIN s : s[i].id = id})

(* C20: once the list is loaded, a step of the mounted screen changes it    *)
(* only as a successful commit, which adds one pin and keeps the others, or *)
(* as deletePin(id), which removes what carries id and keeps the others;    *)
(* every other step leaves it as it is.  The pins that stay are the same    *)
(* records, all six fields unchanged.  (Unmounting discards the component   *)
(* and its list with it.)                                                   *)
C20_PinLifecycle ==
    [][(Ready /\ phase' # "unmounted") =>
          \/ pins' = pins
          \/ /\ savePin
             /\ ~OnlyWhitespace(pinTitle)
             /\ \E i \in DOMAIN pins' : RemoveAt(pins', i) = pins
          \/ \E k \in DOMAIN pins :
                /\ deletePin(pins[k].id)
                /\ RemovedById(pins, pins', pins[k].id)]_vars

\* a pin committed in this session next to the loaded pin, which is as it was
\* loaded, with a position held and add-mode armed again since
C20_Witness ==
    /\ Ready
    /\ Len(pins) = 2
    /\ \E i \in DOMAIN pins : pins[i] = StoredPin
    /\ \E i \in DOMAIN pins : pins[i].timestamp >= SessionStart
    /\ userLocation # NullTuple
    /\ AddModeArmed


(* C21: selecting a pin from the list leaves the live coordinate as it was: *)
(* userLocation, the most recent device position, is the same before and    *)
(* after flyToPin.                                                          *)
C21_SelectKeepsLiveCoordinate ==
    [][EntryClick => userLocation' = userLocation]_vars


(* C22: at most one position request issued by the locate button, and at    *)
(* most one issued by quick capture, is in flight at any time: no second    *)
(* request is issued from a call site whose first request has delivered     *)
(* neither callback.                                                        *)
C22_SingleFlight ==
    \A site \in {"locate", "quick"} : inflight[site] <= 1


(* C23: after the component is torn down no position watch is active: the   *)
(* cleanup has cancelled the watch that the mount started, whatever handle  *)
(* watchPosition returned for it.                                           *)
C23_NoWatchAfterTeardown ==
    phase = "unmounted" => ~watching


(* C24: every geolocation failure (the request made on mount, locate-me,    *)
(* quick capture, an error of the continuous watch) and every refused       *)
(* commit raises a notification to the user: the step ends with an error    *)
(* toast.                                                                   *)
C24_EveryFailureNotified ==
    [][(\/ AutoFailure
        \/ InitialFailure
        \/ LocateFailure
        \/ QuickFailure
        \/ WatchError
        \/ (savePin /\ OnlyWhitespace(pinTitle))) =>
          toast'.variant = "destructive"]_vars


(* C25: in the soft version a success callback of quick capture that        *)
(* arrives while a pending entry exists leaves that entry's coordinate as   *)
(* it is, and one that arrives after quick capture's own entry was          *)
(* committed or cancelled opens no entry; every pending entry comes from    *)
(* one user action.                                                         *)
C25_LateCaptureIgnored ==
    [][\A p \in LatLngs :
          (QuickSuccess(p) /\ PendingEntry) => selectedLocation' = selectedLocation]_vars


(* C26: a mount over a stored list P of valid pins leaves the stored item   *)
(* equal to P: the save effect of the first render does not overwrite P     *)
(* with the text of the initial empty list before the loaded pins are       *)
(* applied.                                                                 *)
C26_MountKeepsStoredList ==
    [][(MountEffects /\ storage # NoItem /\ JSONparse(storage).kind = "pins") =>
          storage' = storage]_vars


(* C27: whenever no pending location exists the entry form is empty: the    *)
(* title and the description are both "", so a new pending entry starts     *)
(* with an empty form; Cancel and toggling add-mode off discard what was    *)
(* typed.                                                                   *)
C27_FormEmptyWithoutPending ==
    selectedLocation = NullLatLng => (pinTitle = <<>> /\ pinDesc = <<>>)

(* C28: in the minimal version a pending location exists only while        *)
(* add-mode is armed: selectedLocation is not null only if isAddingPin is   *)
(* true, after any sequence of actions.                                     *)
C28_PendingOnlyWhileAdding ==
    (variant = "minimal" /\ selectedLocation # NullLatLng) => isAddingPin

\* the minimal version with an entry pending again, after a commit and after
\* a position was set
C28_Witness ==
    /\ variant = "minimal"
    /\ Ready
    /\ selectedLocation # NullLatLng
    /\ isAddingPin
    /\ \E i \in DOMAIN pins : pins[i].timestamp >= SessionStart
    /\ userLocation # NullTuple


====
